---- MODULE Spec2Model ----
(***************************************************************************)
(* Model of the three raster-to-image scripts of print_dem:                *)
(*   main.py                 visualizar_dem_con_satelite        ("dem")    *)
(*   depth_velocity_plot.py  visualizar_amenaza_continua        ("hazard") *)
(*   slope_plot.py           visualizar_pendiente_con_satelite_suave       *)
(*                                                              ("slope")  *)
(* One run of one script is a walk of pc through the function body; every  *)
(* external call (raster read, vector read, reprojection, tile fetch, file *)
(* write) is a step whose outcome is chosen nondeterministically.          *)
(*                                                                         *)
(* Cell values are integers in units of 1/10000 (0.001 is 10, 2.5 is       *)
(* 25000).  The band returned by src.read is kept as a bounded sample of   *)
(* its cells; the masking code is cell-wise, so the sample stands for the  *)
(* grid.  Cell sizes are exact fractions [num, den].  Names are sequences  *)
(* of one-character strings.                                               *)
(***************************************************************************)
EXTENDS Integers, Sequences, FiniteSets, TLC

\* ------------------------------------------------------------------ bounds
MaxCells == 2          \* cells kept of the band that is read
MaxMult == 3           \* source sides go up to MaxMult * factor_escala_max + MaxDelta
MaxDelta == 1          \* how far around each threshold the source sides are drawn
MaxSmallDim == 2       \* small source sides 1..MaxSmallDim

\* ------------------------------------------------------- program constants
factor_escala_max == 2000
MaskEpsilon == 10               \* 0.001, masked_less_equal(data, 0.001)
FloorVelocidad == 25000         \* 2.5, max(data_max, 2.5)
FloorProfundidad == 20000       \* 2.0, max(data_max, 2.0)
NodataHazard == -99990000       \* -9999.0, default when src.nodata is None
NodataElev == -999990000        \* -99999.0, default when src.nodata is None
MinGradientLen == 2             \* np.gradient needs edge_order + 1 elements per axis

Max(a, b) == IF a >= b THEN a ELSE b
Abs(a) == IF a < 0 THEN -a ELSE a

\* ------------------------------------------------------------ downsampling
\* `src.width > factor_escala_max or src.height > factor_escala_max`
ExceedsHazard(w, h) == w > factor_escala_max \/ h > factor_escala_max

\* `src.width > (factor_escala_max * 1.1) or src.height > (factor_escala_max * 1.1)`
\* 2000 * 1.1 is the double 2200.0, so for integer sides the test is 10*w > 11*2000.
ExceedsMargin(w, h) ==
    10 * w > 11 * factor_escala_max \/ 10 * h > 11 * factor_escala_max

ScaleOfUnit(exceeds, w, h) == 1
\* `scale = max(src.width, src.height) // factor_escala_max`, else 1
ScaleOf(exceeds, w, h) ==
    IF exceeds THEN Max(w, h) \div factor_escala_max ELSE 1

\* main.py / depth_velocity_plot.py: `src.height // scale`
FloorDim(n, s) == n \div s

\* slope_plot.py: `max(1, src.height // scale)`
ClampDim(n, s) == Max(1, n \div s)

\* ----------------------------------------------------------------- masking
\* np.ma.masked_less_equal(data, 0.001) then np.ma.masked_equal(data_masked, nodata)
HazardMasked(v, nd) == v <= MaskEpsilon \/ v = nd

\* np.ma.masked_equal(elevacion.copy(), nodata_val) ; np.where(elevacion == nodata_val, nan, ..)
ElevMasked(v, nd) == v = nd

\* `data_masked.mask.all()` / `np.isnan(elevacion).all()`
AllMaskedInverted(m) == \A i \in DOMAIN m : ~m[i]
AllMasked(m) == \A i \in DOMAIN m : m[i]

RECURSIVE MaxUnmasked(_, _)
\* np.nanmax(data_masked): the largest unmasked cell (called only when one exists)
MaxUnmasked(d, m) ==
    IF Len(d) = 1 THEN Head(d)
    ELSE IF Head(m) THEN MaxUnmasked(Tail(d), Tail(m))
    ELSE IF AllMasked(Tail(m)) THEN Head(d)
    ELSE Max(Head(d), MaxUnmasked(Tail(d), Tail(m)))

\* ------------------------------------------------------------ colour scale
DomainFloorComment(tipo) == FloorProfundidad
\* the literal in `max(data_max, 2.5)` ('v') and `max(data_max, 2.0)` (else)
DomainFloor(tipo) == IF tipo = "v" THEN FloorVelocidad ELSE FloorProfundidad

\* obtener_configuracion_continua(tipo_mapa, data_max)[1]
obtener_configuracion_continua(tipo, data_max) == Max(data_max, DomainFloor(tipo))

\* --------------------------------------------------------------- fractions
Frac(n, d) == [num |-> n, den |-> d]
FracTimesInt(f, k) == [num |-> f.num * k, den |-> f.den]
FracAbs(f) == [num |-> Abs(f.num), den |-> Abs(f.den)]

AxisScaleInverted(n, new_n) == Frac(new_n, n)
\* `scale_x = src.width / new_width` (true division)
AxisScale(n, new_n) == Frac(n, new_n)

\* `src.transform * rasterio.Affine.scale(scale_x, scale_y)`: a and e are multiplied
\* by scale_x and scale_y
AffineScaled(tr, sx, sy) == [a |-> FracTimesInt(sx, tr.a), e |-> FracTimesInt(sy, tr.e)]

\* ------------------------------------------------------------------- names
WhiteSpace == {" "}
DQuote == {"\""}
SQuote == {"'"}
DotPng == <<".", "p", "n", "g">>

RECURSIVE LStrip(_, _)
LStrip(s, cs) == IF s = <<>> \/ Head(s) \notin cs THEN s ELSE LStrip(Tail(s), cs)

RECURSIVE RStrip(_, _)
RStrip(s, cs) ==
    IF s = <<>> \/ s[Len(s)] \notin cs THEN s ELSE RStrip(SubSeq(s, 1, Len(s) - 1), cs)

\* str.strip() / str.strip(chars)
Strip(s, cs) == RStrip(LStrip(s, cs), cs)

LowerChar(c) == CASE c = "P" -> "p" [] c = "N" -> "n" [] c = "G" -> "g" [] OTHER -> c
\* str.lower()
Lower(s) == [i \in 1..Len(s) |-> LowerChar(s[i])]

\* str.endswith(suf)
EndsWith(s, suf) ==
    Len(s) >= Len(suf) /\ SubSeq(s, Len(s) - Len(suf) + 1, Len(s)) = suf

StartsWith(s, pre) == Len(s) >= Len(pre) /\ SubSeq(s, 1, Len(pre)) = pre

RECURSIVE RemoveAll(_, _)
\* str.replace(old, ''): every non-overlapping occurrence, left to right
RemoveAll(s, old) ==
    IF s = <<>> THEN <<>>
    ELSE IF StartsWith(s, old) THEN RemoveAll(SubSeq(s, Len(old) + 1, Len(s)), old)
    ELSE <<Head(s)>> \o RemoveAll(Tail(s), old)

\* depth_velocity_plot.py: `nombre_personalizado.strip().replace('.png', '')` + ".png"
HazardNombre(nombre, tipo) ==
    IF nombre # <<>>
    THEN RemoveAll(Strip(nombre, WhiteSpace), DotPng) \o DotPng
    ELSE <<IF tipo = "v" THEN "mapa_velocidad_stem" ELSE "mapa_profundidad_stem">> \o DotPng

\* slope_plot.py: strip, strip('"'), strip("'"), append ".png" unless lower() ends with it
SlopeNombre(nombre) ==
    LET base == IF nombre # <<>>
                THEN Strip(Strip(Strip(nombre, WhiteSpace), DQuote), SQuote)
                ELSE <<"mapa_pendiente_stem">>
    IN IF ~EndsWith(Lower(base), DotPng) THEN base \o DotPng ELSE base

\* main.py: f"mapa_elevacion_{os.path.basename(ruta_archivo)[:-4]}.png"
DemNombre == <<"mapa_elevacion_stem">> \o DotPng

\* ------------------------------------------------------------------- state
VARIABLES
    variant,        \* which script runs: "dem", "hazard", "slope"
    width, height,  \* src.width, src.height of the raster file
    cells,          \* the band's cell values (bounded sample)
    src_nodata,     \* src.nodata: [has |-> FALSE] is None
    src_transform,  \* src.transform: a (x cell size) and e (negative y cell size)
    pc,             \* position in the function body
    scale, new_height, new_width,   \* 0 until computed
    data,           \* the array src.read returned
    nodata,         \* nodata / nodata_val after defaulting
    mask,           \* mask of data_masked / isnan(elevacion): TRUE is masked
    max_val_real,   \* np.nanmax(data_masked)
    tipo_mapa,      \* 'v' or 'p' (hazard script)
    vmax_viz,       \* vmax_uso
    gdf,            \* "None", "native", "foreign" (not in the raster CRS), "reprojected"
    transform,      \* adjusted transform of slope_plot.py: fractions a, e
    gradient,       \* spacings np.gradient was called with, and what it produced
    fig,            \* "none", "open", "closed"
    layers,         \* what has been drawn on the axes
    effects,        \* external work attempted: figure, tile fetch, file writes
    files,          \* files written to disk
    printed,        \* messages printed to the user
    nombre_arg,     \* nombre_personalizado / nombre_salida argument: <<>> is none
    nombre_salida   \* name handed to plt.savefig

vars == <<variant, width, height, cells, src_nodata, src_transform, pc, scale,
          new_height, new_width, data, nodata, mask, max_val_real, tipo_mapa,
          vmax_viz, gdf, transform, gradient, fig, layers, effects, files,
          printed, nombre_arg, nombre_salida>>

fileVars == <<variant, width, height, cells, src_nodata, src_transform>>
samplerVars == <<scale, new_height, new_width, data, nodata, transform>>
maskVars == <<mask, max_val_real, tipo_mapa, vmax_viz>>
renderVars == <<gdf, fig, layers, effects, files, nombre_arg, nombre_salida>>

Variants == {"dem", "hazard", "slope"}

\* source sides around every threshold of the decimation
DimSet ==
    (1..MaxSmallDim)
    \cup {m * factor_escala_max + d : m \in 1..MaxMult, d \in (-MaxDelta)..MaxDelta}
    \cup {(11 * factor_escala_max) \div 10 + d : d \in (-MaxDelta)..MaxDelta}

\* sides of the small rasters the whole pipeline is run on
PipeDims == {1, MinGradientLen}

\* hazard cell values: nodata, 0, 0.0005, 0.001, 0.0011, 2.0, 2.5, 3.0
HazardValues == {NodataHazard, 0, 5, MaskEpsilon, 11, FloorProfundidad, FloorVelocidad, 30000}
\* elevation cell values: nodata, 0, 3.0, 100.0
ElevValues == {NodataElev, 0, 30000, 1000000}

\* src.nodata: None, or 3.0 declared by the file
Nodatas == {[has |-> FALSE, val |-> 0], [has |-> TRUE, val |-> 30000]}

Transforms == {[a |-> 10, e |-> -10], [a |-> 30, e |-> -20]}

CellSeqs(V, n) == UNION {[1..k -> V] : k \in 1..n}

NoFrac == Frac(0, 1)

InitWith(D, HV, EV, n) ==
    /\ variant \in Variants
    /\ width \in D
    /\ height \in D
    /\ cells \in CellSeqs(IF variant = "hazard" THEN HV ELSE EV, n)
    /\ src_nodata \in Nodatas
    /\ src_transform \in (IF variant = "slope" THEN Transforms ELSE {[a |-> 10, e |-> -10]})
    /\ pc = "read"
    /\ scale = 0 /\ new_height = 0 /\ new_width = 0
    /\ data = <<>> /\ nodata = 0 /\ mask = <<>>
    /\ max_val_real = 0 /\ tipo_mapa = "" /\ vmax_viz = 0
    /\ gdf = "None"
    /\ transform = [a |-> NoFrac, e |-> NoFrac]
    /\ gradient = [dy |-> NoFrac, dx |-> NoFrac, result |-> "none"]
    /\ fig = "none" /\ layers = {} /\ effects = {} /\ files = {} /\ printed = {}
    /\ nombre_arg = <<>> /\ nombre_salida = <<>>

\* the whole pipeline on small rasters, every cell value
Init == InitWith(PipeDims, HazardValues, ElevValues, MaxCells)

\* ------------------------------------------------------------ raster read
\* What the `with rasterio.open(...)` block does once the decimation is known:
\* the file may be missing or unreadable; a shape with a zero side makes the read
\* raise or return an empty band (the library decides); otherwise the band is read.
ReadOutcomes(nh, nw) ==
    IF nh = 0 \/ nw = 0 THEN {"missing", "unreadable", "read_raises", "empty"}
    ELSE {"missing", "unreadable", "ok"}

ReadBlock(s, nh, nw, nd_default, tr) ==
    \E outcome \in ReadOutcomes(nh, nw) :
        /\ CASE outcome = "missing" ->
                  /\ printed' = printed \cup {"err_missing"}
                  /\ pc' = "done"
                  /\ UNCHANGED samplerVars
             [] outcome = "unreadable" ->
                  /\ printed' = printed \cup {"err_read"}
                  /\ pc' = "done"
                  /\ UNCHANGED samplerVars
             [] outcome = "read_raises" ->
                  /\ printed' = printed \cup {"err_read"}
                  /\ pc' = "done"
                  /\ scale' = s /\ new_height' = nh /\ new_width' = nw
                  /\ UNCHANGED <<data, nodata, transform>>
             [] OTHER ->
                  /\ scale' = s /\ new_height' = nh /\ new_width' = nw
                  /\ data' = (IF outcome = "empty" THEN <<>> ELSE cells)
                  /\ nodata' = (IF src_nodata.has THEN src_nodata.val ELSE nd_default)
                  /\ transform' = tr
                  /\ pc' = "mask"
                  /\ printed' = printed
        /\ UNCHANGED <<fileVars, maskVars, renderVars, gradient>>

\* depth_velocity_plot.py lines 68-92
HazardRead ==
    /\ variant = "hazard" /\ pc = "read"
    /\ LET s == ScaleOf(ExceedsHazard(width, height), width, height)
       IN ReadBlock(s, FloorDim(height, s), FloorDim(width, s), NodataHazard, transform)

\* main.py lines 34-67
DemRead ==
    /\ variant = "dem" /\ pc = "read"
    /\ LET s == ScaleOf(ExceedsMargin(width, height), width, height)
       IN ReadBlock(s, FloorDim(height, s), FloorDim(width, s), NodataElev, transform)

\* slope_plot.py lines 24-58
SlopeRead ==
    /\ variant = "slope" /\ pc = "read"
    /\ LET s == ScaleOf(ExceedsMargin(width, height), width, height)
           nh == ClampDim(height, s)
           nw == ClampDim(width, s)
       IN ReadBlock(s, nh, nw, NodataElev,
                    AffineScaled(src_transform, AxisScale(width, nw), AxisScale(height, nh)))

\* ----------------------------------------------------------------- masking
\* depth_velocity_plot.py lines 94-106: mask, empty check, maximum, colour scale
HazardMask ==
    /\ variant = "hazard" /\ pc = "mask"
    /\ LET m == [i \in DOMAIN data |-> HazardMasked(data[i], nodata)]
       IN /\ mask' = m
          /\ IF AllMasked(m)
             THEN /\ printed' = printed \cup {"err_empty"}
                  /\ pc' = "done"
                  /\ UNCHANGED <<max_val_real, tipo_mapa, vmax_viz>>
             ELSE /\ \E t \in {"v", "p"} :
                        /\ tipo_mapa' = t
                        /\ vmax_viz' = obtener_configuracion_continua(t, MaxUnmasked(data, m))
                  /\ max_val_real' = MaxUnmasked(data, m)
                  /\ pc' = "shapefile"
                  /\ printed' = printed
    /\ UNCHANGED <<fileVars, samplerVars, renderVars, gradient>>

\* Mask of an elevation band and the empty check that follows it
ElevMaskStep(next) ==
    /\ LET m == [i \in DOMAIN data |-> ElevMasked(data[i], nodata)]
       IN /\ mask' = m
          /\ IF AllMasked(m)
             THEN /\ printed' = printed \cup {"err_empty"}
                  /\ pc' = "done"
             ELSE /\ pc' = next
                  /\ printed' = printed
    /\ UNCHANGED <<fileVars, samplerVars, renderVars, gradient,
                   max_val_real, tipo_mapa, vmax_viz>>

\* main.py lines 71-76
DemMask == variant = "dem" /\ pc = "mask" /\ ElevMaskStep("plot")

\* slope_plot.py lines 60-63
SlopeMask == variant = "slope" /\ pc = "mask" /\ ElevMaskStep("gradient")

\* What np.gradient and masked_invalid can give: with fewer than two cells along an
\* axis np.gradient raises; with no NaN in the band every slope is valid; with some
\* NaN cells the slopes next to them are NaN, possibly all of them.
GradientResults(nh, nw, m) ==
    IF nh < MinGradientLen \/ nw < MinGradientLen THEN {"raised"}
    ELSE IF \E i \in DOMAIN m : m[i] THEN {"some_valid", "all_invalid"}
    ELSE {"some_valid"}

\* slope_plot.py lines 65-71
SlopeGradient ==
    /\ variant = "slope" /\ pc = "gradient"
    /\ \E r \in GradientResults(new_height, new_width, mask) :
          /\ gradient' = [dy |-> FracAbs(transform.e), dx |-> transform.a, result |-> r]
          /\ pc' = CASE r = "raised" -> "crashed"
                     [] r = "all_invalid" -> "done"
                     [] OTHER -> "write_raster"
          /\ printed' = IF r = "all_invalid" THEN printed \cup {"err_slope_invalid"}
                        ELSE printed
    /\ UNCHANGED <<fileVars, samplerVars, maskVars, renderVars>>

\* --------------------------------------------------------------- rendering
SlopeAfterWriteAbort(ok) == IF ok THEN "plot" ELSE "done"
\* slope_plot.py lines 90-94: the try block and its except both fall through
SlopeAfterWrite(ok) == "plot"

\* slope_plot.py lines 73-92
SlopeWriteRaster ==
    /\ variant = "slope" /\ pc = "write_raster"
    /\ \E ok \in BOOLEAN :
          /\ effects' = effects \cup
                (IF ok THEN {"raster_write"} ELSE {"raster_write", "raster_write_failed"})
          /\ files' = IF ok THEN files \cup {"slope_raster"} ELSE files
          /\ printed' = printed \cup {IF ok THEN "ok_raster" ELSE "warn_raster"}
          /\ pc' = SlopeAfterWrite(ok)
    /\ UNCHANGED <<fileVars, samplerVars, maskVars, gradient,
                   gdf, fig, layers, nombre_arg, nombre_salida>>

\* gdf after lines 109-116: read_file assigns gdf; a raising to_crs leaves it as read
GdfAfter(shp) ==
    CASE shp = "same_crs" -> "native"
      [] shp = "other_crs" -> "reprojected"
      [] shp = "reproject_fails" -> "foreign"
      [] OTHER -> "None"

\* depth_velocity_plot.py lines 108-116
HazardShapefile ==
    /\ variant = "hazard" /\ pc = "shapefile"
    /\ \E shp \in {"absent", "unreadable", "same_crs", "other_crs", "reproject_fails"} :
          /\ gdf' = GdfAfter(shp)
          /\ printed' = IF shp \in {"unreadable", "reproject_fails"}
                        THEN printed \cup {"warn_shapefile"} ELSE printed
    /\ pc' = "plot"
    /\ UNCHANGED <<fileVars, samplerVars, maskVars, gradient,
                   fig, layers, effects, files, nombre_arg, nombre_salida>>

\* plt.subplots and the layers drawn before the tile fetch
PlotStep(drawn) ==
    /\ fig' = "open"
    /\ effects' = effects \cup {"figure"}
    /\ layers' = drawn
    /\ pc' = "basemap"
    /\ UNCHANGED <<fileVars, samplerVars, maskVars, gradient,
                   gdf, files, printed, nombre_arg, nombre_salida>>

\* depth_velocity_plot.py lines 118-134
HazardPlot ==
    /\ variant = "hazard" /\ pc = "plot"
    /\ PlotStep(IF gdf # "None" THEN {"raster", "boundary"} ELSE {"raster"})

\* main.py lines 79-103
DemPlot == variant = "dem" /\ pc = "plot" /\ PlotStep({"raster"})

\* slope_plot.py lines 94-111
SlopePlot == variant = "slope" /\ pc = "plot" /\ PlotStep({"raster"})

\* cx.add_basemap in its try block; `warning` is what the except block prints
BasemapStep(warning) ==
    /\ \E ok \in BOOLEAN :
          /\ effects' = effects \cup
                (IF ok THEN {"tile_fetch"} ELSE {"tile_fetch", "tile_fetch_failed"})
          /\ layers' = IF ok THEN layers \cup {"basemap"} ELSE layers
          /\ printed' = IF ok THEN printed ELSE printed \cup warning
    /\ pc' = "legend"
    /\ UNCHANGED <<fileVars, samplerVars, maskVars, gradient,
                   gdf, fig, files, nombre_arg, nombre_salida>>

\* depth_velocity_plot.py lines 136-138: `except: pass`
HazardBasemap == variant = "hazard" /\ pc = "basemap" /\ BasemapStep({})

\* main.py lines 107-116
DemBasemap == variant = "dem" /\ pc = "basemap" /\ BasemapStep({"warn_basemap"})

\* slope_plot.py lines 113-123
SlopeBasemap == variant = "slope" /\ pc = "basemap" /\ BasemapStep({"warn_basemap"})

LegendStep(drawn) ==
    /\ layers' = layers \cup drawn
    /\ pc' = "save"
    /\ UNCHANGED <<fileVars, samplerVars, maskVars, gradient,
                   gdf, fig, effects, files, printed, nombre_arg, nombre_salida>>

\* depth_velocity_plot.py lines 140-152
HazardLegend ==
    /\ variant = "hazard" /\ pc = "legend"
    /\ LegendStep(IF max_val_real < vmax_viz
                  THEN {"colorbar", "max_label", "max_line"}
                  ELSE {"colorbar", "max_label"})

\* main.py lines 119-131
DemLegend == variant = "dem" /\ pc = "legend" /\ LegendStep({"colorbar"})

\* slope_plot.py lines 125-139
SlopeLegend == variant = "slope" /\ pc = "legend" /\ LegendStep({"colorbar"})

\* ------------------------------------------------------------------ saving
Names ==
    { <<>>,
      <<"x">>,
      <<"x", ".", "p", "n", "g">>,
      <<"x", ".", "P", "N", "G">>,
      <<"x", ".", "p", "n", "g", ".", "p", "n", "g">>,
      <<" ", "x", " ">>,
      <<"\"", "x", "\"">>,
      <<"'", "x", ".", "p", "n", "g", "'">> }

\* plt.savefig inside try/except, then plt.close(fig)
SaveGuarded(nombre, final) ==
    /\ nombre_arg' = nombre
    /\ nombre_salida' = final
    /\ \E ok \in BOOLEAN :
          /\ effects' = effects \cup
                (IF ok THEN {"image_write"} ELSE {"image_write", "image_write_failed"})
          /\ files' = IF ok THEN files \cup {"image"} ELSE files
          /\ printed' = printed \cup {IF ok THEN "ok_saved" ELSE "err_save"}
    /\ fig' = "closed"
    /\ pc' = "done"
    /\ UNCHANGED <<fileVars, samplerVars, maskVars, gradient, gdf, layers>>

\* plt.savefig with no handler: a failure leaves the function by the exception
SaveUnguarded(nombre, final) ==
    /\ nombre_arg' = nombre
    /\ nombre_salida' = final
    /\ \E ok \in BOOLEAN :
          /\ effects' = effects \cup
                (IF ok THEN {"image_write"} ELSE {"image_write", "image_write_failed"})
          /\ files' = IF ok THEN files \cup {"image"} ELSE files
          /\ printed' = IF ok THEN printed \cup {"ok_saved"} ELSE printed
          /\ fig' = IF ok THEN "closed" ELSE fig
          /\ pc' = IF ok THEN "done" ELSE "crashed"
    /\ UNCHANGED <<fileVars, samplerVars, maskVars, gradient, gdf, layers>>

\* depth_velocity_plot.py lines 154-170
HazardSave ==
    /\ variant = "hazard" /\ pc = "save"
    /\ \E nombre \in Names : SaveGuarded(nombre, HazardNombre(nombre, tipo_mapa))

\* main.py lines 133-144
DemSave == variant = "dem" /\ pc = "save" /\ SaveGuarded(<<>>, DemNombre)

\* slope_plot.py lines 141-150
SlopeSave ==
    /\ variant = "slope" /\ pc = "save"
    /\ \E nombre \in Names : SaveUnguarded(nombre, SlopeNombre(nombre))

\* ---------------------------------------------------------- specifications
Next ==
    \/ HazardRead \/ HazardMask \/ HazardShapefile \/ HazardPlot
    \/ HazardBasemap \/ HazardLegend \/ HazardSave
    \/ DemRead \/ DemMask \/ DemPlot \/ DemBasemap \/ DemLegend \/ DemSave
    \/ SlopeRead \/ SlopeMask \/ SlopeGradient \/ SlopeWriteRaster \/ SlopePlot
    \/ SlopeBasemap \/ SlopeLegend \/ SlopeSave

Spec == Init /\ [][Next]_vars

\* the decimation on source sides around its thresholds, one fixed valid band
InitSampler == InitWith(DimSet, {11}, {1000000}, 1)

NextSampler ==
    \/ HazardRead \/ DemRead \/ SlopeRead
    \/ HazardMask \/ DemMask \/ SlopeMask \/ SlopeGradient

SpecSampler == InitSampler /\ [][NextSampler]_vars

\* ------------------------------------------------------------------ claims
Ended == pc \in {"done", "crashed"}
BandRead == pc # "read" /\ data # <<>>
MaskComputed == BandRead /\ pc # "mask"

C2_ValidityMask ==
    (variant = "hazard" /\ MaskComputed)
        => \A i \in DOMAIN mask : mask[i] <=> (data[i] <= 0 \/ data[i] = nodata)

\* C3: when every cell of the band is masked, the run has ended with no figure
\* created, no tile fetch attempted and no file written (every script).
C3_EmptyDomainFailFast ==
    (MaskComputed /\ \A i \in DOMAIN mask : mask[i])
        => /\ pc = "done"
           /\ "err_empty" \in printed
           /\ fig = "none"
           /\ effects = {}
           /\ files = {}
           /\ layers = {}

\* a velocity/depth band whose cells are all exactly 0 was read and masked
C3_Witness ==
    /\ variant = "hazard"
    /\ pc = "done"
    /\ data = <<0, 0>>
    /\ mask = <<TRUE, TRUE>>
    /\ "err_empty" \in printed

\* C4: in the hazard script the boundary is drawn only from a layer that is in the
\* raster CRS; when the reprojection fails the boundary is not drawn, a warning is
\* printed and the run still reaches the image save.
C4_OverlayReprojected ==
    variant = "hazard"
        => /\ "boundary" \in layers => gdf \in {"native", "reprojected"}
           /\ gdf = "foreign" => "warn_shapefile" \in printed
           /\ (gdf = "foreign" /\ Ended) => "image_write" \in effects

\* C5: when the tile fetch raises, the basemap layer is left out, a warning is
\* printed, and the run goes on to the legend and the image save (every script).
C5_BasemapNonFatal ==
    "tile_fetch_failed" \in effects
        => /\ "basemap" \notin layers
           /\ "warn_basemap" \in printed
           /\ Ended => ("colorbar" \in layers /\ "image_write" \in effects)

C7_WriteFailureHandled ==
    "image_write_failed" \in effects
        => /\ pc = "done"
           /\ fig = "closed"
           /\ "err_save" \in printed

ImageExt(n) == EndsWith(Lower(n), DotPng)
\* C8: with an explicit name (hazard and slope scripts) the final name has no
\* surrounding whitespace or quotes, ends in ".png", carries no second image
\* extension before it, and is unchanged by normalizing it again.
C8_NameNormalized ==
    (variant \in {"hazard", "slope"} /\ "image_write" \in effects /\ nombre_arg # <<>>)
        => /\ Strip(nombre_salida, WhiteSpace \cup DQuote \cup SQuote) = nombre_salida
           /\ EndsWith(nombre_salida, DotPng)
           /\ ~ImageExt(SubSeq(nombre_salida, 1, Len(nombre_salida) - Len(DotPng)))
           /\ (IF variant = "hazard" THEN HazardNombre(nombre_salida, tipo_mapa)
               ELSE SlopeNombre(nombre_salida)) = nombre_salida

\* C9: in the slope script, once the auxiliary raster write has been attempted,
\* whether it succeeded or raised, a raise has printed its warning and the run
\* either has reached the image save or is at a rendering step that can proceed.
C9_RasterWriteNonFatal ==
    (variant = "slope" /\ "raster_write" \in effects)
        => /\ "raster_write_failed" \in effects => "warn_raster" \in printed
           /\ "raster_write_failed" \notin effects => "slope_raster" \in files
           /\ \/ "image_write" \in effects
              \/ pc \in {"plot", "basemap", "legend", "save"} /\ ENABLED Next

\* the raster write raised and the image was saved all the same
C9_Witness ==
    /\ variant = "slope"
    /\ "raster_write_failed" \in effects
    /\ "warn_raster" \in printed
    /\ "image" \in files
    /\ pc = "done"

\* C10: in the slope script the adjusted cell sizes keep the ground extent,
\* new_width * xres = width * native xres and new_height * yres = height * native
\* yres, and np.gradient is called with exactly these cell sizes.
C10_GroundExtentPreserved ==
    (variant = "slope" /\ BandRead)
        => /\ new_width * transform.a.num = width * src_transform.a * transform.a.den
           /\ new_height * transform.e.num = height * src_transform.e * transform.e.den
           /\ gradient.result # "none" =>
                 /\ new_width * gradient.dx.num = width * src_transform.a * gradient.dx.den
                 /\ new_height * gradient.dy.num
                       = height * Abs(src_transform.e) * gradient.dy.den
                 /\ gradient.dx.num > 0 /\ gradient.dy.num > 0

\* a decimated raster whose side is no multiple of the factor reached the gradient
C10_Witness ==
    /\ variant = "slope"
    /\ width = 2 * factor_escala_max + 1
    /\ scale = 2
    /\ new_width = factor_escala_max
    /\ src_transform.a # Abs(src_transform.e)
    /\ gradient.result = "some_valid"

\* C11: for every source raster with width >= 1 and height >= 1, once the shape for
\* the read is computed the decimation factor is >= 1 and both new_height and
\* new_width are >= 1 (every script).
C11_NonDegenerateShape ==
    scale # 0 => (scale >= 1 /\ new_height >= 1 /\ new_width >= 1)

====
